---- MODULE Spec2Model ----
(***************************************************************************)
(* Model of generate_nn_code, the Noir neural-network code generator       *)
(* (src/noir_code_generator.py, the w/b variant, and                       *)
(* src/example_circuits/noir_code_generator.py, the l{i}_weights variant). *)
(*                                                                         *)
(* A JSON number is the sequence of its characters; json.load turns it     *)
(* into a Python value and the f-strings of the generator turn that value  *)
(* back into text.  A JSON object is a function from keys to JSON values;  *)
(* a key such as 'w3' or 'l3_weights' is the pair <<"w", 3>> or            *)
(* <<"l_weights", 3>>.  Emitted text is kept structured (one record per    *)
(* declaration, body line or test block) with every number in it as the   *)
(* characters the f-string produces.                                       *)
(***************************************************************************)
EXTENDS Integers, Sequences, FiniteSets, TLC

(* ------------------------------ bounds -------------------------------- *)

\* Layer indices that a model-parameters file may mention.
MaxLayer == 2

\* Longest weights or biases array of the shape family.
MaxLen == 2

\* Sample indices that a test-samples file may mention.
MaxSample == 2

\* Longest JSON number literal (in characters) of the literal family.
MaxLitLen == 4

(* --------------------------- JSON numbers ----------------------------- *)

DigitChars == <<"0", "1", "2", "3", "4", "5", "6", "7", "8", "9">>

IsDigit(c) == \E k \in 1..Len(DigitChars) : DigitChars[k] = c

DigitVal(c) == (CHOOSE k \in 1..Len(DigitChars) : DigitChars[k] = c) - 1

AllDigits(s) == \A k \in 1..Len(s) : IsDigit(s[k])

RECURSIVE NatOf(_)
\* int() of a string of decimal digits
NatOf(s) ==
    IF s = <<>> THEN 0
    ELSE 10 * NatOf(SubSeq(s, 1, Len(s) - 1)) + DigitVal(s[Len(s)])

RECURSIVE DigitsOf(_)
\* the decimal digits of a natural number, as str() prints them
DigitsOf(n) ==
    IF n < 10 THEN <<DigitChars[n + 1]>>
    ELSE DigitsOf(n \div 10) \o <<DigitChars[(n % 10) + 1]>>

RECURSIVE Zeros(_)
Zeros(n) == IF n <= 0 THEN <<>> ELSE <<"0">> \o Zeros(n - 1)

\* first position of character c in s, 0 when absent
IndexOf(s, c) ==
    IF \E k \in 1..Len(s) : s[k] = c
    THEN CHOOSE k \in 1..Len(s) : s[k] = c /\ \A j \in 1..(k - 1) : s[j] # c
    ELSE 0

\* The three groups of the decoder's number pattern,
\*   (-?(?:0|[1-9]\d*))(\.\d+)?([eE][-+]?\d+)?
\* cut out of a literal.
LitBody(s) == IF s # <<>> /\ s[1] = "-" THEN Tail(s) ELSE s

LitInt(s) ==
    LET b == LitBody(s)
        pd == IndexOf(b, ".")
        pe == IndexOf(b, "e")
    IN SubSeq(b, 1, IF pd > 0 THEN pd - 1 ELSE IF pe > 0 THEN pe - 1 ELSE Len(b))

LitHasFrac(s) == IndexOf(LitBody(s), ".") > 0

LitFrac(s) ==
    LET b == LitBody(s)
        pd == IndexOf(b, ".")
        pe == IndexOf(b, "e")
    IN IF pd > 0 THEN SubSeq(b, pd + 1, IF pe > 0 THEN pe - 1 ELSE Len(b)) ELSE <<>>

LitHasExp(s) == IndexOf(LitBody(s), "e") > 0

LitExp(s) ==
    LET b == LitBody(s)
        pe == IndexOf(b, "e")
    IN IF pe > 0 THEN SubSeq(b, pe + 1, Len(b)) ELSE <<>>

ExpDigits(x) == IF x # <<>> /\ x[1] \in {"-", "+"} THEN Tail(x) ELSE x

\* the literal is a number of the JSON grammar
IsJsonNumber(s) ==
    /\ s # <<>>
    /\ LitInt(s) # <<>>
    /\ AllDigits(LitInt(s))
    /\ (Len(LitInt(s)) > 1 => LitInt(s)[1] # "0")
    /\ (LitHasFrac(s) => LitFrac(s) # <<>> /\ AllDigits(LitFrac(s)))
    /\ (LitHasExp(s) => ExpDigits(LitExp(s)) # <<>> /\ AllDigits(ExpDigits(LitExp(s))))

RECURSIVE StripZeros(_, _)
\* coefficient and exponent with the trailing zeros of the coefficient moved
\* into the exponent
StripZeros(c, e) ==
    IF c # 0 /\ c % 10 = 0 THEN StripZeros(c \div 10, e + 1) ELSE <<c, e>>

\* the first three significant digits of a positive coefficient
Lead3(c) ==
    LET d == DigitsOf(c) \o <<"0", "0">>
    IN NatOf(SubSeq(d, 1, 3))

\* float() of the text int+frac+exp: the double nearest to c * 10^e, kept as
\* its shortest decimal.  Exact for the literals of this model, which have
\* far fewer than 15 significant digits; beyond the largest double
\* (1.797...e308) the result is inf, below the smallest it is zero.
PyFloat(neg, c0, e0) ==
    LET n == StripZeros(c0, e0)
        c == n[1]
        e == n[2]
        adj == Len(DigitsOf(c)) - 1 + e
    IN IF c = 0 \/ adj < -324
       THEN [t |-> "float", neg |-> neg, inf |-> FALSE, c |-> 0, e |-> 0]
       ELSE IF adj > 308 \/ (adj = 308 /\ Lead3(c) >= 180)
       THEN [t |-> "float", neg |-> neg, inf |-> TRUE, c |-> 0, e |-> 0]
       ELSE [t |-> "float", neg |-> neg, inf |-> FALSE, c |-> c, e |-> e]

\* every literal goes through float(): the decoder with parse_int = float
json_number_all_float(s) ==
    LET x == LitExp(s)
        ev == IF x # <<>> /\ x[1] = "-" THEN 0 - NatOf(ExpDigits(x)) ELSE NatOf(ExpDigits(x))
    IN PyFloat(s[1] = "-", NatOf(LitInt(s) \o LitFrac(s)), ev - Len(LitFrac(s)))

\* json.load on one number: int(integer) when the literal has neither
\* fraction nor exponent, float(integer + frac + exp) otherwise
json_number(s) ==
    IF ~LitHasFrac(s) /\ ~LitHasExp(s)
    THEN [t |-> "int", neg |-> s[1] = "-" /\ NatOf(LitInt(s)) # 0, inf |-> FALSE,
          c |-> NatOf(LitInt(s)), e |-> 0]
    ELSE json_number_all_float(s)

\* repr() of a Python float: fixed notation for 1e-4 <= |x| < 1e16, always
\* with a fractional part, exponent notation (two exponent digits at least)
\* outside
FloatRepr(v) ==
    LET d == DigitsOf(v.c)
        n == Len(d)
        adj == n - 1 + v.e
        sign == IF v.neg THEN <<"-">> ELSE <<>>
        ex == IF adj < 0 THEN 0 - adj ELSE adj
        exd == IF ex < 10 THEN <<"0">> \o DigitsOf(ex) ELSE DigitsOf(ex)
    IN IF v.inf THEN sign \o <<"i", "n", "f">>
       ELSE IF v.c = 0 THEN sign \o <<"0", ".", "0">>
       ELSE IF adj >= -4 /\ adj <= 15
       THEN IF v.e >= 0 THEN sign \o d \o Zeros(v.e) \o <<".", "0">>
            ELSE IF adj >= 0
            THEN sign \o SubSeq(d, 1, n + v.e) \o <<".">> \o SubSeq(d, n + v.e + 1, n)
            ELSE sign \o <<"0", ".">> \o Zeros(0 - adj - 1) \o d
       ELSE sign \o <<d[1]>> \o (IF n > 1 THEN <<".">> \o Tail(d) ELSE <<>>)
                 \o <<"e", (IF adj < 0 THEN "-" ELSE "+")>> \o exd

\* the text an f-string produces for a number
py_repr(v) ==
    IF v.t = "int" THEN (IF v.neg THEN <<"-">> ELSE <<>>) \o DigitsOf(v.c)
    ELSE FloatRepr(v)

LitChars == {"-", "+", "0", "1", "5", ".", "e"}

\* the JSON numbers of at most MaxLitLen characters over LitChars
Literals ==
    {s \in UNION {[1..n -> LitChars] : n \in 1..MaxLitLen} : IsJsonNumber(s)}

(* ------------------------ JSON values and keys ------------------------ *)

\* A JSON value of the input files: an array of numbers (arr) or one number
\* (a one-element items with arr FALSE).
JsonArray(lits) == [arr |-> TRUE, items |-> lits]

JsonScalar(lit) == [arr |-> FALSE, items |-> <<lit>>]

\* json.load of an object: the same keys, every number parsed
json_load(obj) ==
    [k \in DOMAIN obj |->
        [arr |-> obj[k].arr,
         items |-> [j \in 1..Len(obj[k].items) |-> json_number(obj[k].items[j])]]]

\* the text of {value} in an f-string: every number by its repr
py_str(val) ==
    [arr |-> val.arr, items |-> [j \in 1..Len(val.items) |-> py_repr(val.items[j])]]

py_len(val) == Len(val.items)

Variants == {"wb", "l"}

\* f'w{idx}' and f'l{idx}_weights'
WKey(v, n) == IF v = "wb" THEN <<"w", n>> ELSE <<"l_weights", n>>

\* f'b{idx}' and f'l{idx}_biases'
BKey(v, n) == IF v = "wb" THEN <<"b", n>> ELSE <<"l_biases", n>>

\* f'in{i}' and f'input{i}'
InKey(v, n) == IF v = "wb" THEN <<"in", n>> ELSE <<"input", n>>

\* f'out{i}' and f'output{i}'
OutKey(v, n) == IF v = "wb" THEN <<"out", n>> ELSE <<"output", n>>

\* the linear transform the variant imports and calls
Linear(v) == IF v = "wb" THEN "fc" ELSE "dense"

NoKey == <<"", 0>>

EmptyObj == [k \in {} |-> JsonArray(<<>>)]

(* --------------------------- input families --------------------------- *)

\* the array of n plain integers stored under a key: layer digit then
\* position digit, negative under a biases key
ArrOf(k, n) ==
    JsonArray([j \in 1..n |->
        (IF k[1] \in {"b", "l_biases"} THEN <<"-">> ELSE <<>>)
            \o <<DigitChars[k[2] + 1], DigitChars[j + 1]>>])

LayerKeys(v) == {WKey(v, n) : n \in 1..MaxLayer} \cup {BKey(v, n) : n \in 1..MaxLayer}

\* every model-parameters object over the layer keys of a variant: each key
\* absent (-1) or holding an array of 0..MaxLen numbers
ShapeObjects(v) ==
    {[k \in {x \in LayerKeys(v) : f[x] >= 0} |-> ArrOf(k, f[k])] :
        f \in [LayerKeys(v) -> (-1)..MaxLen]}

SampleKeys == {"in", "out", "input", "output"} \X (1..MaxSample)

\* the value stored under a sample key: a two-number vector under an input
\* key, one number under an output key
SampleOf(k) ==
    IF k[1] \in {"in", "input"}
    THEN JsonArray(<<<<DigitChars[k[2] + 1]>>, <<(IF k[1] = "in" THEN "1" ELSE "5")>>>>)
    ELSE JsonScalar(<<DigitChars[k[2] + 1]>> \o (IF k[1] = "out" THEN <<>> ELSE <<"0">>))

\* every test-samples object over the sample keys of both conventions
SampleObjects == {[k \in K |-> SampleOf(k)] : K \in SUBSET SampleKeys}

File(obj) == [readable |-> TRUE, obj |-> obj]

UnreadableFile == [readable |-> FALSE, obj |-> EmptyObj]

Given(file) == [given |-> TRUE, file |-> file]

NotGiven == [given |-> FALSE, file |-> UnreadableFile]

\* a one-layer network with two inputs
OneLayer(v) == (WKey(v, 1) :> ArrOf(WKey(v, 1), 2)) @@ (BKey(v, 1) :> ArrOf(BKey(v, 1), 1))

\* a one-layer network whose bias array is empty
EmptyBias(v) == (WKey(v, 1) :> ArrOf(WKey(v, 1), 1)) @@ (BKey(v, 1) :> ArrOf(BKey(v, 1), 0))

OneSample(v) == (InKey(v, 1) :> SampleOf(InKey(v, 1))) @@ (OutKey(v, 1) :> SampleOf(OutKey(v, 1)))

(* ------------------------------- state -------------------------------- *)

VARIABLES
    variant,                \* which of the two generators runs
    model_parameters_file,  \* the file at model_parameters_file
    test_samples_arg,       \* the test_samples_file argument and its file
    save_file,              \* the file at save_path
    opens,                  \* how often save_path was opened for writing
    pc,                     \* position in generate_nn_code
    err,                    \* the exception that ended the run
    model_parameters,
    idx,
    model_str,
    input_dim,
    test_samples,
    test_str,
    i,
    main_logic

vars == <<variant, model_parameters_file, test_samples_arg, save_file, opens, pc, err,
          model_parameters, idx, model_str, input_dim, test_samples, test_str, i,
          main_logic>>

NoError == [type |-> "none", key |-> NoKey]

\* what save_path holds before the run
PreExisting == [old |-> TRUE, sections |-> <<>>]

\* a local that is not bound yet
Unbound == -1

NoTestStr == [bound |-> FALSE, blocks |-> <<>>]

Locals0 ==
    /\ save_file = PreExisting
    /\ opens = 0
    /\ pc = "load_model"
    /\ err = NoError
    /\ model_parameters = EmptyObj
    /\ idx = Unbound
    /\ model_str = <<>>
    /\ input_dim = Unbound
    /\ test_samples = EmptyObj
    /\ test_str = NoTestStr
    /\ i = Unbound
    /\ main_logic = <<>>

\* shape family: every layer-key object, without samples or with one sample
InitShape ==
    /\ variant \in Variants
    /\ model_parameters_file \in {File(o) : o \in ShapeObjects(variant)}
    /\ test_samples_arg \in {NotGiven, Given(File(OneSample(variant)))}
    /\ Locals0

\* sample family: a few networks, every sample-key object
InitSamples ==
    /\ variant \in Variants
    /\ \/ /\ model_parameters_file \in {File(OneLayer(variant)), File(EmptyBias(variant))}
          /\ test_samples_arg \in
                {Given(File(o)) : o \in SampleObjects} \cup {Given(UnreadableFile)}
       \/ /\ model_parameters_file = UnreadableFile
          /\ test_samples_arg \in {NotGiven, Given(File(OneSample(variant)))}
    /\ Locals0

\* literal family: one layer and one sample made of a JSON number literal
InitLiterals ==
    /\ variant \in Variants
    /\ \E lit \in Literals :
          /\ model_parameters_file =
                File((WKey(variant, 1) :> JsonArray(<<lit, <<"1">>>>))
                     @@ (BKey(variant, 1) :> JsonArray(<<lit>>)))
          /\ test_samples_arg =
                Given(File((InKey(variant, 1) :> JsonArray(<<lit, lit>>))
                           @@ (OutKey(variant, 1) :> JsonScalar(lit))))
    /\ Locals0

Init == InitShape \/ InitSamples \/ InitLiterals

(* ------------------------- generate_nn_code --------------------------- *)

\* an uncaught exception ends the run
Raise(type, key) ==
    /\ pc' = "failed"
    /\ err' = [type |-> type, key |-> key]

\* LoadModel with save_path opened for writing before the inputs are read
LoadModelAfterOpen ==
    /\ pc = "load_model"
    /\ save_file' = [old |-> FALSE, sections |-> <<>>]
    /\ opens' = opens + 1
    /\ IF ~model_parameters_file.readable
       THEN /\ Raise("OSError", NoKey)
            /\ UNCHANGED <<model_parameters, idx, model_str>>
       ELSE /\ model_parameters' = json_load(model_parameters_file.obj)
            /\ idx' = 1
            /\ model_str' = <<>>
            /\ pc' = "discover"
            /\ UNCHANGED err
    /\ UNCHANGED <<variant, model_parameters_file, test_samples_arg,
                   input_dim, test_samples, test_str, i, main_logic>>

\* with open(model_parameters_file, 'r') as f: model_parameters = json.load(f)
\* then idx = 1, model_str = ""
LoadModel ==
    /\ pc = "load_model"
    /\ IF ~model_parameters_file.readable
       THEN /\ Raise("OSError", NoKey)
            /\ UNCHANGED <<model_parameters, idx, model_str>>
       ELSE /\ model_parameters' = json_load(model_parameters_file.obj)
            /\ idx' = 1
            /\ model_str' = <<>>
            /\ pc' = "discover"
            /\ UNCHANGED err
    /\ UNCHANGED <<variant, model_parameters_file, test_samples_arg, save_file, opens,
                   input_dim, test_samples, test_str, i, main_logic>>

\* the condition of the while loop
LayerPresent(v, mp, n) == WKey(v, n) \in DOMAIN mp /\ BKey(v, n) \in DOMAIN mp

\* one global declaration: name, [Field; len], initialiser
Decl(k, val) == [name |-> k, size |-> py_len(val), init |-> py_str(val)]

\* LayerDecls with the biases line sized by the weights array
LayerDeclsWeightsSize(v, mp, n) ==
    <<Decl(WKey(v, n), mp[WKey(v, n)]),
      [Decl(BKey(v, n), mp[BKey(v, n)]) EXCEPT !.size = py_len(mp[WKey(v, n)])]>>

\* the two lines the loop body appends for layer n
LayerDecls(v, mp, n) == <<Decl(WKey(v, n), mp[WKey(v, n)]), Decl(BKey(v, n), mp[BKey(v, n)])>>

\* one iteration of the while loop
DiscoverLayer ==
    /\ pc = "discover"
    /\ LayerPresent(variant, model_parameters, idx)
    /\ model_str' = model_str \o LayerDecls(variant, model_parameters, idx)
    /\ idx' = idx + 1
    /\ UNCHANGED <<variant, model_parameters_file, test_samples_arg, save_file, opens, pc,
                   err, model_parameters, input_dim, test_samples, test_str, i, main_logic>>

\* the while loop ends at the first index that lacks a key
DiscoverEnd ==
    /\ pc = "discover"
    /\ ~LayerPresent(variant, model_parameters, idx)
    /\ pc' = "infer"
    /\ UNCHANGED <<variant, model_parameters_file, test_samples_arg, save_file, opens, err,
                   model_parameters, idx, model_str, input_dim, test_samples, test_str, i,
                   main_logic>>

\* InputDim with the quotient rounded up
InputDimRoundedUp(v, mp) ==
    (py_len(mp[WKey(v, 1)]) + py_len(mp[BKey(v, 1)]) - 1) \div py_len(mp[BKey(v, 1)])

\* len(w1) // len(b1), both operands present and the divisor not zero
InputDim(v, mp) == py_len(mp[WKey(v, 1)]) \div py_len(mp[BKey(v, 1)])

\* InferDim with an empty biases array taken as width 0 instead of dividing
InferDimGuarded ==
    /\ pc = "infer"
    /\ IF WKey(variant, 1) \notin DOMAIN model_parameters
       THEN Raise("KeyError", WKey(variant, 1)) /\ UNCHANGED input_dim
       ELSE IF BKey(variant, 1) \notin DOMAIN model_parameters
       THEN Raise("KeyError", BKey(variant, 1)) /\ UNCHANGED input_dim
       ELSE /\ input_dim' = (IF py_len(model_parameters[BKey(variant, 1)]) = 0 THEN 0
                             ELSE InputDim(variant, model_parameters))
            /\ pc' = IF test_samples_arg.given THEN "load_tests" ELSE "build"
            /\ UNCHANGED err
    /\ UNCHANGED <<variant, model_parameters_file, test_samples_arg, save_file, opens,
                   model_parameters, idx, model_str, test_samples, test_str, i, main_logic>>

\* input_dim = len(model_parameters['w1']) // len(model_parameters['b1'])
InferDim ==
    /\ pc = "infer"
    /\ IF WKey(variant, 1) \notin DOMAIN model_parameters
       THEN Raise("KeyError", WKey(variant, 1)) /\ UNCHANGED input_dim
       ELSE IF BKey(variant, 1) \notin DOMAIN model_parameters
       THEN Raise("KeyError", BKey(variant, 1)) /\ UNCHANGED input_dim
       ELSE IF py_len(model_parameters[BKey(variant, 1)]) = 0
       THEN Raise("ZeroDivisionError", NoKey) /\ UNCHANGED input_dim
       ELSE /\ input_dim' = InputDim(variant, model_parameters)
            /\ pc' = IF test_samples_arg.given THEN "load_tests" ELSE "build"
            /\ UNCHANGED err
    /\ UNCHANGED <<variant, model_parameters_file, test_samples_arg, save_file, opens,
                   model_parameters, idx, model_str, test_samples, test_str, i, main_logic>>

\* with open(test_samples_file, 'r') as f: test_samples = json.load(f)
\* then test_str = the banner
LoadTests ==
    /\ pc = "load_tests"
    /\ IF ~test_samples_arg.file.readable
       THEN /\ Raise("OSError", NoKey)
            /\ UNCHANGED <<test_samples, test_str, i>>
       ELSE /\ test_samples' = json_load(test_samples_arg.file.obj)
            /\ test_str' = [bound |-> TRUE, blocks |-> <<>>]
            /\ i' = 1
            /\ pc' = "tests"
            /\ UNCHANGED err
    /\ UNCHANGED <<variant, model_parameters_file, test_samples_arg, save_file, opens,
                   model_parameters, idx, model_str, input_dim, main_logic>>

\* SampleCount of range(1, len(test_samples) // 2): the last sample dropped
SampleCountExclusive(ts) == (Cardinality(DOMAIN ts) \div 2) - 1

\* the last index of range(1, len(test_samples) // 2 + 1)
SampleCount(ts) == Cardinality(DOMAIN ts) \div 2

\* one #[test] function: its number, its sample and the expected output
TestBlock(v, ts, n) ==
    [num |-> n, sample |-> py_str(ts[InKey(v, n)]), expected |-> py_str(ts[OutKey(v, n)])]

\* TestStep that passes over a sample with a missing key instead of raising
TestStepSkipMissing ==
    /\ pc = "tests"
    /\ i <= SampleCount(test_samples)
    /\ IF InKey(variant, i) \notin DOMAIN test_samples
          \/ OutKey(variant, i) \notin DOMAIN test_samples
       THEN UNCHANGED test_str
       ELSE test_str' = [test_str EXCEPT
                            !.blocks = @ \o <<TestBlock(variant, test_samples, i)>>]
    /\ i' = i + 1
    /\ UNCHANGED <<pc, err>>
    /\ UNCHANGED <<variant, model_parameters_file, test_samples_arg, save_file, opens,
                   model_parameters, idx, model_str, input_dim, test_samples, main_logic>>

\* one iteration of the samples loop
TestStep ==
    /\ pc = "tests"
    /\ i <= SampleCount(test_samples)
    /\ IF InKey(variant, i) \notin DOMAIN test_samples
       THEN Raise("KeyError", InKey(variant, i)) /\ UNCHANGED <<test_str, i>>
       ELSE IF OutKey(variant, i) \notin DOMAIN test_samples
       THEN Raise("KeyError", OutKey(variant, i)) /\ UNCHANGED <<test_str, i>>
       ELSE /\ test_str' = [test_str EXCEPT
                               !.blocks = @ \o <<TestBlock(variant, test_samples, i)>>]
            /\ i' = i + 1
            /\ UNCHANGED <<pc, err>>
    /\ UNCHANGED <<variant, model_parameters_file, test_samples_arg, save_file, opens,
                   model_parameters, idx, model_str, input_dim, test_samples, main_logic>>

\* the samples loop is exhausted
TestEnd ==
    /\ pc = "tests"
    /\ i > SampleCount(test_samples)
    /\ pc' = "build"
    /\ UNCHANGED <<variant, model_parameters_file, test_samples_arg, save_file, opens, err,
                   model_parameters, idx, model_str, input_dim, test_samples, test_str, i,
                   main_logic>>

\* main_logic = "  let output = input;\n", then the loop over range(1, idx)
\* starts
BuildStart ==
    /\ pc = "build"
    /\ main_logic' = <<[op |-> "input", linear |-> "", w |-> NoKey, b |-> NoKey]>>
    /\ i' = 1
    /\ pc' = "layers"
    /\ UNCHANGED <<variant, model_parameters_file, test_samples_arg, save_file, opens, err,
                   model_parameters, idx, model_str, input_dim, test_samples, test_str>>

\* Activation with the last layer taken to be idx instead of idx - 1
ActivationOffByOne(n, next) == IF n # next THEN "relu" ELSE "arg_max"

\* relu for every layer but the last, arg_max for the last
Activation(n, next) == IF n # next - 1 THEN "relu" ELSE "arg_max"

\* one body line: let output = op(linear(output, w, b));
LayerLine(v, n, next) ==
    [op |-> Activation(n, next), linear |-> Linear(v), w |-> WKey(v, n), b |-> BKey(v, n)]

\* one iteration of the loop over range(1, idx)
BuildStep ==
    /\ pc = "layers"
    /\ i < idx
    /\ main_logic' = main_logic \o <<LayerLine(variant, i, idx)>>
    /\ i' = i + 1
    /\ UNCHANGED <<variant, model_parameters_file, test_samples_arg, save_file, opens, pc,
                   err, model_parameters, idx, model_str, input_dim, test_samples, test_str>>

\* with open(save_path, 'w') as f: the file is created or truncated
OpenSave ==
    /\ pc = "layers"
    /\ i >= idx
    /\ save_file' = [old |-> FALSE, sections |-> <<>>]
    /\ opens' = opens + 1
    /\ pc' = "write"
    /\ UNCHANGED <<variant, model_parameters_file, test_samples_arg, err, model_parameters,
                   idx, model_str, input_dim, test_samples, test_str, i, main_logic>>

\* Sections with the test section written whether or not samples were given
SectionsTestsAlways(v, given, decls, dim, body, tests) ==
    <<[sec |-> "use", linear |-> Linear(v)],
      [sec |-> "globals", decls |-> decls],
      [sec |-> "main", input_dim |-> dim, body |-> body],
      [sec |-> "tests", blocks |-> tests.blocks]>>

\* the f.write calls, in order
Sections(v, given, decls, dim, body, tests) ==
    <<[sec |-> "use", linear |-> Linear(v)],
      [sec |-> "globals", decls |-> decls],
      [sec |-> "main", input_dim |-> dim, body |-> body]>>
    \o (IF given THEN <<[sec |-> "tests", blocks |-> tests.blocks]>> ELSE <<>>)

\* the body of the with block, then the file is closed
WriteOut ==
    /\ pc = "write"
    /\ save_file' = [save_file EXCEPT
                        !.sections = @ \o Sections(variant, test_samples_arg.given, model_str,
                                                   input_dim, main_logic, test_str)]
    /\ pc' = "done"
    /\ UNCHANGED <<variant, model_parameters_file, test_samples_arg, opens, err,
                   model_parameters, idx, model_str, input_dim, test_samples, test_str, i,
                   main_logic>>

Next ==
    \/ LoadModel
    \/ DiscoverLayer
    \/ DiscoverEnd
    \/ InferDim
    \/ LoadTests
    \/ TestStep
    \/ TestEnd
    \/ BuildStart
    \/ BuildStep
    \/ OpenSave
    \/ WriteOut

Spec == Init /\ [][Next]_vars

(* ----------------------- vocabulary of the claims ---------------------- *)

ModelObj == model_parameters_file.obj

SamplesObj == test_samples_arg.file.obj

ModelReadable == model_parameters_file.readable

SamplesReadable == test_samples_arg.given /\ test_samples_arg.file.readable

\* both keys of layer n are in the model-parameters file
HasLayer(n) == WKey(variant, n) \in DOMAIN ModelObj /\ BKey(variant, n) \in DOMAIN ModelObj

\* L: the largest n such that every layer 1..n has both keys
ContiguousLayers ==
    CHOOSE n \in 0..MaxLayer :
        /\ \A m \in 1..n : HasLayer(m)
        /\ (n < MaxLayer => ~HasLayer(n + 1))

\* N: the inferred sample count, the number of keys halved and floored
InferredSamples ==
    CHOOSE n \in 0..(2 * MaxSample) :
        2 * n <= Cardinality(DOMAIN SamplesObj) /\ Cardinality(DOMAIN SamplesObj) < 2 * n + 2

\* the samples file holds exactly the pairs 1..n under the keys kin, kout
PairedAs(kin, kout, n) ==
    DOMAIN SamplesObj = {<<kin, m>> : m \in 1..n} \cup {<<kout, m>> : m \in 1..n}

\* some index of 1..N lacks its input key or its output key
SampleKeyMissing ==
    \E n \in 1..InferredSamples :
        InKey(variant, n) \notin DOMAIN SamplesObj \/ OutKey(variant, n) \notin DOMAIN SamplesObj

\* the layer discovery loop is over
Discovered == ModelReadable /\ pc \notin {"load_model", "discover"}

\* the samples loop has run to its end
SamplesDone == SamplesReadable /\ pc \in {"build", "layers", "write", "done"}

Terminated == pc \in {"done", "failed"}

SectionNames == [k \in 1..Len(save_file.sections) |-> save_file.sections[k].sec]

(* ------------------------------- claims ------------------------------- *)

\* C1: once layer discovery is over the declarations are exactly the pairs of
\* layers 1..L, L the number of contiguous layers of the file: in ascending
\* order, weights before biases, each size the length of the JSON array and
\* each initialiser that array's numbers; nothing at or beyond the first gap
\* is declared.  While the loop runs the declarations are those of the
\* layers before idx, and the written file carries the same declarations.
C1_DeclarationsAreContiguousLayers ==
    /\ (ModelReadable /\ pc = "discover" =>
            /\ idx - 1 <= ContiguousLayers
            /\ Len(model_str) = 2 * (idx - 1))
    /\ (Discovered =>
            /\ Len(model_str) = 2 * ContiguousLayers
            /\ \A n \in 1..ContiguousLayers :
                  /\ model_str[2 * n - 1].name = WKey(variant, n)
                  /\ model_str[2 * n - 1].size = Len(ModelObj[WKey(variant, n)].items)
                  /\ model_str[2 * n - 1].init = py_str(json_load(ModelObj)[WKey(variant, n)])
                  /\ model_str[2 * n].name = BKey(variant, n)
                  /\ model_str[2 * n].size = Len(ModelObj[BKey(variant, n)].items)
                  /\ model_str[2 * n].init = py_str(json_load(ModelObj)[BKey(variant, n)]))
    /\ (pc = "done" => save_file.sections[2].decls = model_str)

\* a finished run whose file has layer 1, lacks the biases of layer 2 and
\* still has the weights of layer 2: one pair is declared
C1_Witness ==
    /\ pc = "done"
    /\ ContiguousLayers = 1
    /\ WKey(variant, 2) \in DOMAIN ModelObj
    /\ Len(save_file.sections[2].decls) = 2

\* C2: after the body loop of a run with L >= 1 layers, the body is the
\* accumulator initialisation followed by one line per layer 1..L in order,
\* relu on every layer before L and arg_max (no relu) on layer L; the written
\* main function carries that body.
C2_ReluThenArgMax ==
    pc \in {"write", "done"} =>
        /\ ContiguousLayers >= 1
        /\ Len(main_logic) = ContiguousLayers + 1
        /\ main_logic[1].op = "input"
        /\ \A n \in 1..ContiguousLayers :
              /\ main_logic[n + 1].op = (IF n < ContiguousLayers THEN "relu" ELSE "arg_max")
              /\ main_logic[n + 1].linear = Linear(variant)
              /\ main_logic[n + 1].w = WKey(variant, n)
              /\ main_logic[n + 1].b = BKey(variant, n)
        /\ (pc = "done" => save_file.sections[3].body = main_logic)

\* a finished run with two layers: relu, then arg_max
C2_Witness ==
    /\ pc = "done"
    /\ ContiguousLayers = 2
    /\ save_file.sections[3].body[2].op = "relu"
    /\ save_file.sections[3].body[3].op = "arg_max"

\* C3: in a finished run the input width q of the main signature is the
\* floored quotient of the length of layer 1's weights by the length of layer
\* 1's biases: q * len(b1) <= len(w1) < (q + 1) * len(b1).
C3_InputDimIsFlooredQuotient ==
    pc = "done" =>
        LET q == save_file.sections[3].input_dim
            lw == Len(ModelObj[WKey(variant, 1)].items)
            lb == Len(ModelObj[BKey(variant, 1)].items)
        IN lb > 0 /\ q * lb <= lw /\ lw < (q + 1) * lb

\* a finished run whose lengths do not divide
C3_Witness ==
    /\ pc = "done"
    /\ Len(ModelObj[WKey(variant, 1)].items) % Len(ModelObj[BKey(variant, 1)].items) # 0

\* C4: when the samples file holds exactly the pairs 1..N under the
\* variant's input and output keys, the samples loop raises no key error and
\* leaves exactly N test blocks, numbered 1..N in that order, the n-th
\* holding the input and the expected output of sample n; the written test
\* section carries them.
C4_OneBlockPerSample ==
    \A n \in 0..MaxSample :
        (SamplesReadable /\ PairedAs(InKey(variant, 1)[1], OutKey(variant, 1)[1], n)) =>
            /\ ~(pc = "failed" /\ err.type = "KeyError" /\ err.key[1] \in {"in", "out", "input", "output"})
            /\ (SamplesDone =>
                    /\ Len(test_str.blocks) = n
                    /\ \A m \in 1..n :
                          /\ test_str.blocks[m].num = m
                          /\ test_str.blocks[m].sample
                                = py_str(json_load(SamplesObj)[InKey(variant, m)])
                          /\ test_str.blocks[m].expected
                                = py_str(json_load(SamplesObj)[OutKey(variant, m)]))
            /\ (pc = "done" => save_file.sections[4].blocks = test_str.blocks)

\* a finished run over two paired samples
C4_Witness ==
    /\ pc = "done"
    /\ SamplesReadable
    /\ PairedAs(InKey(variant, 1)[1], OutKey(variant, 1)[1], 2)
    /\ Len(save_file.sections[4].blocks) = 2

\* C5: in the w/b variant, a samples file with the documented keys inputX and
\* outputX for X = 1..N raises no key error on a sample key and a finished
\* run has one test per sample.
C5_DocumentedSampleKeysWork ==
    \A n \in 1..MaxSample :
        (variant = "wb" /\ SamplesReadable /\ PairedAs("input", "output", n)) =>
            /\ ~(pc = "failed" /\ err.type = "KeyError" /\ err.key[1] \in {"in", "out"})
            /\ (pc = "done" => Len(save_file.sections[4].blocks) = n)

\* a plain integer literal: digits only, optionally negative, not -0
IsPlainInteger(s) ==
    /\ ~LitHasFrac(s)
    /\ ~LitHasExp(s)
    /\ ~(s[1] = "-" /\ LitInt(s) = <<"0">>)

\* a plain decimal literal: digits, a point, digits; no exponent, no trailing
\* zero in the fraction other than a lone 0, at most 15 digits in all, and a
\* magnitude of 0.0001 at least when the integer part is 0
IsPlainDecimal(s) ==
    /\ LitHasFrac(s)
    /\ ~LitHasExp(s)
    /\ (LitFrac(s) = <<"0">> \/ LitFrac(s)[Len(LitFrac(s))] # "0")
    /\ Len(LitInt(s)) + Len(LitFrac(s)) <= 15
    /\ (LitInt(s) = <<"0">> /\ LitFrac(s) # <<"0">> =>
            \E k \in 1..4 : k <= Len(LitFrac(s)) /\ LitFrac(s)[k] # "0")

\* every number of the written file that comes from a literal satisfying P
\* is that literal, character for character
LiteralsKept(P(_)) ==
    /\ \A d \in 1..Len(save_file.sections[2].decls) :
          LET decl == save_file.sections[2].decls[d]
          IN \A j \in 1..Len(decl.init.items) :
                P(ModelObj[decl.name].items[j]) =>
                    decl.init.items[j] = ModelObj[decl.name].items[j]
    /\ (test_samples_arg.given =>
          \A m \in 1..Len(save_file.sections[4].blocks) :
              LET blk == save_file.sections[4].blocks[m]
                  sin == SamplesObj[InKey(variant, blk.num)].items
                  sout == SamplesObj[OutKey(variant, blk.num)].items
              IN /\ \A j \in 1..Len(blk.sample.items) :
                        P(sin[j]) => blk.sample.items[j] = sin[j]
                 /\ \A j \in 1..Len(blk.expected.items) :
                        P(sout[j]) => blk.expected.items[j] = sout[j])

AnyLiteral(s) == TRUE

PlainLiteral(s) == IsPlainInteger(s) \/ IsPlainDecimal(s)

C7_SectionsInOrderTestsIffGiven ==
    /\ opens <= 1
    /\ (pc # "done" => save_file.sections = <<>>)
    /\ (pc = "done" =>
            /\ opens = 1
            /\ ~save_file.old
            /\ SectionNames = (IF test_samples_arg.given
                               THEN <<"use", "globals", "main", "tests">>
                               ELSE <<"use", "globals", "main">>))

\* a finished run without the test-samples argument: three sections
C7_Witness ==
    /\ pc = "done"
    /\ ~test_samples_arg.given
    /\ Len(save_file.sections) = 3

\* a required key is missing: a layer 1 key of a readable model file, or a
\* sample key of an index in 1..N of a readable samples file
RequiredKeyMissing ==
    /\ ModelReadable
    /\ \/ ~HasLayer(1)
       \/ SamplesReadable /\ SampleKeyMissing

\* layer 1 is in the model file and its biases array is empty
EmptyFirstBias ==
    ModelReadable /\ HasLayer(1) /\ Len(ModelObj[BKey(variant, 1)].items) = 0

\* C8 as stated: whenever a required key is missing the run never succeeds
\* and ends with a key-lookup error.
C8_MissingKeyIsKeyError ==
    RequiredKeyMissing => pc # "done" /\ (pc = "failed" => err.type = "KeyError")

\* C8 amended: whenever a required key is missing the run never succeeds; it
\* ends with a key-lookup error, except that a missing sample key is never
\* looked up when layer 1's biases array is empty: the division error of the
\* input width comes first.
C8_MissingKeyNeverSucceeds ==
    RequiredKeyMissing =>
        /\ pc # "done"
        /\ (pc = "failed" =>
                err.type = (IF EmptyFirstBias THEN "ZeroDivisionError" ELSE "KeyError"))

\* a run that built the first test and failed on the missing output key of
\* the second sample
C8_Witness ==
    /\ pc = "failed"
    /\ err = [type |-> "KeyError", key |-> OutKey(variant, 2)]
    /\ Len(test_str.blocks) = 1
    /\ InKey(variant, 2) \in DOMAIN SamplesObj

\* C9 as stated: if some discovered layer 1..L has an empty biases array the
\* run ends with a division error and never succeeds.
C9_AnyEmptyBiasIsDivisionError ==
    (ModelReadable
        /\ \E n \in 1..ContiguousLayers : Len(ModelObj[BKey(variant, n)].items) = 0) =>
        pc # "done" /\ (pc = "failed" => err.type = "ZeroDivisionError")

\* C9 amended: if layer 1's biases array is empty the run ends with a
\* division error, never succeeds and leaves save_path alone; an empty
\* biases array of a later layer raises nothing.
C9_EmptyFirstBiasIsDivisionError ==
    EmptyFirstBias =>
        /\ pc \notin {"load_tests", "tests", "build", "layers", "write", "done"}
        /\ (pc = "failed" => err.type = "ZeroDivisionError" /\ save_file = PreExisting)

\* a run over two layers, the first with an empty biases array, that ended
\* with the division error after declaring both layers
C9_Witness ==
    /\ pc = "failed"
    /\ err.type = "ZeroDivisionError"
    /\ ContiguousLayers = 2
    /\ Len(model_str) = 4

\* C10: a failed run never opened save_path, whose content is what it was;
\* save_path is open or written only after both inputs are loaded, every
\* lookup has succeeded and declarations, body and tests are assembled.
C10_SavePathUntouchedUntilAssembled ==
    /\ (pc \notin {"write", "done"} => opens = 0 /\ save_file = PreExisting)
    /\ (opens > 0 =>
            /\ pc \in {"write", "done"}
            /\ err = NoError
            /\ DOMAIN model_parameters = DOMAIN ModelObj
            /\ input_dim # Unbound
            /\ Len(model_str) = 2 * (idx - 1)
            /\ Len(main_logic) = idx
            /\ (test_samples_arg.given =>
                    /\ DOMAIN test_samples = DOMAIN SamplesObj
                    /\ test_str.bound
                    /\ Len(test_str.blocks) = Cardinality(DOMAIN SamplesObj) \div 2))

\* a run that failed on a sample key after the declarations and one test
\* were assembled, with save_path as it was
C10_Witness ==
    /\ pc = "failed"
    /\ err.type = "KeyError"
    /\ err.key[1] \in {"in", "out", "input", "output"}
    /\ test_str.bound
    /\ model_str # <<>>
    /\ save_file = PreExisting
    /\ opens = 0

====
